---- MODULE Spec2Model ----
(***************************************************************************)
(* Model of app.py, the Air Travel Emissions Tracker.                      *)
(*                                                                         *)
(* The page has two handlers: the "Calculate Distance" button (single      *)
(* lookup, app.py 80-94) and the spreadsheet upload (app.py 102-293).      *)
(* A behaviour is one run of the script on the widgets' contents: a single *)
(* lookup runs with no file uploaded, an upload runs with the button not   *)
(* pressed.                                                                *)
(*                                                                         *)
(* Numbers.  Floats are modelled by exact integers:                        *)
(*   distance        whole kilometres,                                     *)
(*   factor          units of 10^-5 kg CO2e per passenger km,              *)
(*   emissions (kg)  units of 10^-5 kg (single lookup),                    *)
(*   emissions (t)   units of 10^-8 t  (batch; the division by 1000 of     *)
(*                   app.py 140 and 157 is the change of unit, so the      *)
(*                   integer is the same).                                 *)
(* A pandas cell that may be None/NaN is an option: <<>> is None, <<v>> is  *)
(* the value v.                                                            *)
(***************************************************************************)
EXTENDS Integers, Sequences, FiniteSets

VARIABLES
    pc,             \* "start" before the script ran, "done" after
    button,         \* st.button("Calculate Distance")
    from_text,      \* the text typed into "From IATA code"
    to_text,        \* the text typed into "To IATA code"
    from_code,      \* from_text after .strip().upper()
    to_code,        \* to_text after .strip().upper()
    single,         \* what the single lookup displayed
    uploaded_file,  \* the spreadsheet as read by pd.read_excel
    df,             \* the data frame of the upload handler when it stopped
    shown,          \* what the upload handler displayed, in order
    summary,        \* the Summaries of app.py 167-175
    insight         \* max_row of app.py 260-263

vars == <<pc, button, from_text, to_text, from_code, to_code, single,
         uploaded_file, df, shown, summary, insight>>

----------------------------------------------------------------------------
(* Bounds of the model *)

\* most rows in a multi-row spreadsheet
MaxRows == 2
\* most airport codes in a route cell of a one-row spreadsheet
MaxRouteLen == 3
\* largest trip count in a trips cell
MaxTrips == 2

----------------------------------------------------------------------------
(* Option cells and small helpers *)

None == <<>>
Some(v) == <<v>>
IsNull(cell) == cell = None
\* skipna: a null cell counts as 0 in a pandas sum
ValueOr0(cell) == IF IsNull(cell) THEN 0 ELSE cell[1]

\* an empty spreadsheet cell of a text column (pandas reads it as float NaN)
NaN == "<NaN>"

RECURSIVE SumSeq(_)
SumSeq(s) == IF s = <<>> THEN 0 ELSE s[1] + SumSeq(Tail(s))

----------------------------------------------------------------------------
(* Emission factors and the airport table *)

\* 0.03350 + 0.27257 kg CO2e per passenger km
DOMESTIC_FACTOR == 30607
\* 0.02162 + 0.17580 kg CO2e per passenger km
INTERNATIONAL_FACTOR == 19742

\* load_airport_data: iata_code -> lat, lon (10^-4 degrees), country.
\* WDH stands for a row whose iso_country is read as missing and becomes "".
airport_data ==
    [c \in {"DEL", "BOM", "SIN", "WDH"} |->
        CASE c = "DEL" -> [lat |-> 285665,  lon |-> 771031,  country |-> "IN"]
          [] c = "BOM" -> [lat |-> 190887,  lon |-> 728679,  country |-> "IN"]
          [] c = "SIN" -> [lat |-> 13502,   lon |-> 1039940, country |-> "SG"]
          [] c = "WDH" -> [lat |-> -224799, lon |-> 174709,  country |-> ""]]

InTable(c) == c \in DOMAIN airport_data

\* great-circle distances of the table's points, R = 6371, rounded to km
GreatCircleKm ==
    { <<"DEL", "BOM", 1138>>, <<"DEL", "SIN", 4159>>, <<"DEL", "WDH", 8546>>,
      <<"BOM", "SIN", 3922>>, <<"BOM", "WDH", 7587>>, <<"SIN", "WDH", 9708>> }

haversine(lat1, lon1, lat2, lon2) ==
    IF lat1 = lat2 /\ lon1 = lon2 THEN 0
    ELSE LET hit == { t \in GreatCircleKm :
                        LET p == airport_data[t[1]]
                            q == airport_data[t[2]]
                        IN  \/ /\ p.lat = lat1 /\ p.lon = lon1
                               /\ q.lat = lat2 /\ q.lon = lon2
                            \/ /\ q.lat = lat1 /\ q.lon = lon1
                               /\ p.lat = lat2 /\ p.lon = lon2 }
         IN  (CHOOSE t \in hit : TRUE)[3]

\* str.strip().upper() on the texts the model uses
StripUpper(s) ==
    CASE s = "del"  -> "DEL"
      [] s = " bom" -> "BOM"
      [] s = " "    -> ""
      [] OTHER      -> s

\* str.upper() without strip (the route label of app.py 164)
Upper(s) ==
    CASE s = "del"  -> "DEL"
      [] s = " bom" -> " BOM"
      [] OTHER      -> s

----------------------------------------------------------------------------
(* Single lookup, app.py 80-94 *)

NoLookup ==
    [signal |-> "none", missing |-> <<>>,
     distance |-> None, travel_type |-> None, emissions |-> None]

\* variant: only the first unresolved code is reported
MissingCodes_first_only(f, t) ==
    IF InTable(f) THEN <<t>> ELSE <<f>>

\* missing = [c for c in (from_code, to_code) if c not in airport_data]
MissingCodes(f, t) ==
    (IF InTable(f) THEN <<>> ELSE <<f>>) \o (IF InTable(t) THEN <<>> ELSE <<t>>)

SingleLookup(f, t) ==
    IF f = "" \/ t = ""
    THEN [NoLookup EXCEPT !.signal = "warning"]
    ELSE IF ~InTable(f) \/ ~InTable(t)
    THEN [NoLookup EXCEPT !.signal = "error", !.missing = MissingCodes(f, t)]
    ELSE LET a1 == airport_data[f]
             a2 == airport_data[t]
             distance == haversine(a1.lat, a1.lon, a2.lat, a2.lon)
             travel_type == IF a1.country = "IN" /\ a2.country = "IN"
                            THEN "Domestic" ELSE "International"
             emissions_t == distance * (IF travel_type = "Domestic"
                                        THEN DOMESTIC_FACTOR
                                        ELSE INTERNATIONAL_FACTOR)
         IN  [signal |-> "success", missing |-> <<>>,
              distance |-> Some(distance), travel_type |-> Some(travel_type),
              emissions |-> Some(emissions_t)]

----------------------------------------------------------------------------
(* The spreadsheet: cells, rows, data frame *)

\* a route cell is the list of its "-"-separated parts; str.split never
\* returns an empty list, so <<>> stands for the empty (NaN) cell
RouteNaN == <<>>

\* a trips cell: empty, an integer, or a text that is no number ("abc")
TripNaN == [kind |-> "nan", val |-> 0]
TripInt(n) == [kind |-> "int", val |-> n]
TripText == [kind |-> "str", val |-> 0]

\* pd.read_excel: the sheet's rows with no result columns yet.  Columns are
\* the names after strip().lower() (app.py 105).  A cell of a column the
\* sheet does not have is held as the empty cell and never read.
read_excel(file) ==
    [columns |-> file.columns,
     rows    |-> [i \in 1..Len(file.rows) |->
                    [route |-> file.rows[i].route,
                     from  |-> file.rows[i].from,
                     to    |-> file.rows[i].to,
                     trips |-> file.rows[i].trips,
                     distance_km |-> None,
                     travel_type |-> None,
                     emissions   |-> None]]]

\* fillna(1).astype(int) on one cell; None when int() raises ValueError
AsInt(cell) ==
    CASE cell.kind = "nan" -> Some(1)
      [] cell.kind = "int" -> Some(cell.val)
      [] OTHER             -> None

\* df['trips'] = df['trips'].fillna(1).astype(int)   (app.py 109, 149)
NormaliseTrips(d) ==
    LET conv == [i \in 1..Len(d.rows) |-> AsInt(d.rows[i].trips)]
    IN  IF \E i \in 1..Len(d.rows) : conv[i] = None
        THEN [raised |-> TRUE, df |-> d]
        ELSE [raised |-> FALSE,
              df |-> [d EXCEPT !.rows =
                        [i \in 1..Len(d.rows) |->
                            [d.rows[i] EXCEPT !.trips = TripInt(conv[i][1])]]]]

\* df['trips'] = 1   (app.py 111)
DefaultTrips(d) ==
    [columns |-> d.columns \cup {"trips"},
     rows    |-> [i \in 1..Len(d.rows) |-> [d.rows[i] EXCEPT !.trips = TripInt(1)]]]

\* the trips step of the route shape, app.py 108-111
RouteTrips(d) ==
    IF "trips" \in d.columns
    THEN NormaliseTrips(d)
    ELSE [raised |-> FALSE, df |-> DefaultTrips(d)]

\* the trips step of the {from, to} shape, app.py 149: df.get('trips', 1) is
\* the int 1 when the column is absent, and (1).fillna raises AttributeError
PairTrips(d) ==
    IF "trips" \in d.columns
    THEN NormaliseTrips(d)
    ELSE [raised |-> TRUE, df |-> d]

----------------------------------------------------------------------------
(* Row functions *)

NullMetrics ==
    [raised |-> FALSE, distance_km |-> None, travel_type |-> None, emissions |-> None]
RaisedMetrics ==
    [raised |-> TRUE, distance_km |-> None, travel_type |-> None, emissions |-> None]

\* variant: only the origin's country is looked at
domestic_leg_origin_only(a1, a2) == a1.country = "IN"

\* app.py 132
domestic_leg(a1, a2) == a1.country = "IN" /\ a2.country = "IN"

\* app.py 133
leg_factor(is_domestic) ==
    IF is_domestic THEN DOMESTIC_FACTOR ELSE INTERNATIONAL_FACTOR

\* variant: the legs before the unknown code are returned
unknown_code_result_partial(total_km, total_em_kg) ==
    [raised |-> FALSE, distance_km |-> Some(total_km),
     travel_type |-> None, emissions |-> Some(total_em_kg)]

\* app.py 126-127: what the row returns at an unknown code
unknown_code_result(total_km, total_em_kg) == NullMetrics

\* the loop of app.py 124-141 from leg i on
RECURSIVE route_legs(_, _, _, _, _)
route_legs(codes, i, total_km, total_em_kg, all_domestic) ==
    IF i >= Len(codes)
    THEN [raised |-> FALSE,
          distance_km |-> Some(total_km),
          travel_type |-> Some(IF all_domestic THEN "Domestic" ELSE "International"),
          emissions   |-> Some(total_em_kg)]
    ELSE LET origin == codes[i]
             dest   == codes[i + 1]
         IN  IF ~InTable(origin) \/ ~InTable(dest)
             THEN unknown_code_result(total_km, total_em_kg)
             ELSE LET a1 == airport_data[origin]
                      a2 == airport_data[dest]
                      leg_km == haversine(a1.lat, a1.lon, a2.lat, a2.lon)
                      dom == domestic_leg(a1, a2)
                  IN  route_legs(codes, i + 1,
                                 total_km + leg_km,
                                 total_em_kg + leg_km * leg_factor(dom),
                                 all_domestic /\ dom)

\* variant: the factor is chosen once, by the route's travel type
compute_route_metrics_route_factor(row) ==
    IF row.route = RouteNaN
    THEN RaisedMetrics
    ELSE LET codes == [i \in 1..Len(row.route) |-> StripUpper(row.route[i])]
             r == route_legs(codes, 1, 0, 0, TRUE)
         IN  IF IsNull(r.emissions) THEN r
             ELSE [r EXCEPT !.emissions =
                     Some(r.distance_km[1] * leg_factor(r.travel_type = Some("Domestic")))]

\* app.py 113-141.  row["route"].split on an empty cell raises AttributeError.
compute_route_metrics(row) ==
    IF row.route = RouteNaN
    THEN RaisedMetrics
    ELSE LET codes == [i \in 1..Len(row.route) |-> StripUpper(row.route[i])]
         IN  route_legs(codes, 1, 0, 0, TRUE)

\* app.py 151-159.  row['from'].strip on an empty cell raises AttributeError.
compute_metrics(row) ==
    IF row.from = NaN \/ row.to = NaN
    THEN RaisedMetrics
    ELSE LET f == StripUpper(row.from)
             t == StripUpper(row.to)
         IN  IF InTable(f) /\ InTable(t)
             THEN LET a1 == airport_data[f]
                      a2 == airport_data[t]
                      dist == haversine(a1.lat, a1.lon, a2.lat, a2.lon)
                      tt == IF a1.country = "IN" /\ a2.country = "IN"
                            THEN "Domestic" ELSE "International"
                      em_t == dist * (IF tt = "Domestic" THEN DOMESTIC_FACTOR
                                      ELSE INTERNATIONAL_FACTOR) * row.trips.val
                  IN  [raised |-> FALSE, distance_km |-> Some(dist),
                       travel_type |-> Some(tt), emissions |-> Some(em_t)]
             ELSE NullMetrics

ResultColumns == {"distance_km", "travel_type", "emissions(tCO2e)"}

\* df.apply(compute_route_metrics, axis=1) and df.apply(compute_metrics, axis=1)
RouteResults(d) == [i \in 1..Len(d.rows) |-> compute_route_metrics(d.rows[i])]
PairResults(d) == [i \in 1..Len(d.rows) |-> compute_metrics(d.rows[i])]

\* df[[...]] = df.apply(..., axis=1)   (app.py 144, 161), res being what the
\* row function returned for each row: an exception in one row leaves df as
\* it was
ApplyRows(d, res) ==
    IF \E i \in 1..Len(d.rows) : res[i].raised
    THEN [raised |-> TRUE, df |-> d]
    ELSE [raised |-> FALSE,
          df |-> [columns |-> d.columns \cup ResultColumns,
                  rows |-> [i \in 1..Len(d.rows) |->
                              [d.rows[i] EXCEPT
                                  !.distance_km = res[i].distance_km,
                                  !.travel_type = res[i].travel_type,
                                  !.emissions   = res[i].emissions]]]]

----------------------------------------------------------------------------
(* After the rows: route label, Summaries, insight  (app.py 163-291) *)

NoSummary ==
    [total_em |-> 0, dom_em |-> 0, int_em |-> 0,
     total_dist |-> 0, dom_dist |-> 0, int_dist |-> 0,
     total_trips |-> 0, dom_trips |-> 0, int_trips |-> 0]

NoInsight == [index |-> 0, route |-> <<>>, em_val |-> 0, trips_val |-> 0]

\* df['route'] = df['from'].str.upper() + '→' + df['to'].str.upper()
RouteLabel(d) ==
    [columns |-> d.columns \cup {"route"},
     rows    |-> [i \in 1..Len(d.rows) |->
                    [d.rows[i] EXCEPT
                        !.route = <<Upper(d.rows[i].from), "→", Upper(d.rows[i].to)>>]]]

\* df.loc[df['travel_type'] == tt, ...]: the rows of one travel type
RowsOfType(d, tt) == SelectSeq(d.rows, LAMBDA r : r.travel_type = Some(tt))

\* Series.sum() of a result column, nulls skipped
SumEmissions(rows) == SumSeq([i \in 1..Len(rows) |-> ValueOr0(rows[i].emissions)])
SumDistance(rows) == SumSeq([i \in 1..Len(rows) |-> ValueOr0(rows[i].distance_km)])
\* Series.sum() of the trips column
SumTrips(rows) == SumSeq([i \in 1..Len(rows) |-> rows[i].trips.val])

\* app.py 167-175
Summaries(d) ==
    [total_em    |-> SumEmissions(d.rows),
     dom_em      |-> SumEmissions(RowsOfType(d, "Domestic")),
     int_em      |-> SumEmissions(RowsOfType(d, "International")),
     total_dist  |-> SumDistance(d.rows),
     dom_dist    |-> SumDistance(RowsOfType(d, "Domestic")),
     int_dist    |-> SumDistance(RowsOfType(d, "International")),
     total_trips |-> SumTrips(d.rows),
     dom_trips   |-> SumTrips(RowsOfType(d, "Domestic")),
     int_trips   |-> SumTrips(RowsOfType(d, "International"))]

\* variant: the last position of the largest value
idxmax_last(col) ==
    LET present == { i \in 1..Len(col) : col[i] # <<>> }
    IN  IF present = {} THEN <<>>
        ELSE <<CHOOSE i \in present :
                    /\ \A j \in present : col[j][1] <= col[i][1]
                    /\ \A j \in present : j > i => col[j][1] < col[i][1]>>

\* Series.idxmax() of a column of option cells: the first position of the
\* largest non-null value; None when every cell is null (idxmax raises).
\* Positions are 1-based here, the RangeIndex labels of pandas are 0-based.
idxmax(col) ==
    LET present == { i \in 1..Len(col) : ~IsNull(col[i]) }
    IN  IF present = {} THEN None
        ELSE Some(CHOOSE i \in present :
                    /\ \A j \in present : col[j][1] <= col[i][1]
                    /\ \A j \in present : j < i => col[j][1] < col[i][1])

\* what the handler leaves when an exception reaches app.py 292-293
Failed(d, out, s) ==
    [df |-> d, shown |-> out \o <<"Error processing file">>,
     summary |-> s, insight |-> NoInsight]

\* app.py 163-291, entered with what was displayed so far
AfterRows(d, out) ==
    IF "route" \notin d.columns /\ ~({"from", "to"} \subseteq d.columns)
    THEN \* df['from'] or df['to'] raises KeyError
         Failed(d, out, NoSummary)
    ELSE LET d2 == IF "route" \in d.columns THEN d ELSE RouteLabel(d)
             s == Summaries(d2)
             out2 == out \o <<"Key Metrics", "Emissions Share">>
             m == idxmax([i \in 1..Len(d2.rows) |-> d2.rows[i].emissions])
         IN  IF m = None
             THEN Failed(d2, out2, s)
             ELSE [df |-> d2,
                   shown |-> out2 \o <<"Insight", "Top 10 Polluting Routes",
                                       "dataframe", "Download Results">>,
                   summary |-> s,
                   insight |-> [index     |-> m[1],
                                route     |-> d2.rows[m[1]].route,
                                em_val    |-> ValueOr0(d2.rows[m[1]].emissions),
                                trips_val |-> d2.rows[m[1]].trips.val]]

\* st.error of app.py 147
MalformedBatchError == "Excel must contain 'from' and 'to' columns."

\* the upload handler, app.py 102-293
UploadHandler(file) ==
    LET d0 == read_excel(file)
    IN  IF "route" \in d0.columns
        THEN LET t == RouteTrips(d0)
             IN  IF t.raised THEN Failed(d0, <<>>, NoSummary)
                 ELSE LET a == ApplyRows(t.df, RouteResults(t.df))
                      IN  IF a.raised THEN Failed(t.df, <<>>, NoSummary)
                          ELSE AfterRows(a.df, <<>>)
        ELSE IF ~({"from", "to"} \subseteq d0.columns)
        THEN AfterRows(d0, <<MalformedBatchError>>)
        ELSE LET t == PairTrips(d0)
             IN  IF t.raised THEN Failed(d0, <<>>, NoSummary)
                 ELSE LET a == ApplyRows(t.df, PairResults(t.df))
                      IN  IF a.raised THEN Failed(t.df, <<>>, NoSummary)
                          ELSE AfterRows(a.df, <<>>)

----------------------------------------------------------------------------
(* Inputs *)

\* texts typed into the two inputs of the single lookup
QueryTexts == {"DEL", "del", " bom", "SIN", "WDH", "ZZZ", "YYY", "", " "}

\* parts of the route cell of a one-row spreadsheet
RouteParts == {"DEL", " bom", "SIN", "WDH", "ZZZ"}

\* from and to cells of a multi-row spreadsheet
FromCells == {"del", "ZZZ", " ", NaN}
ToCells == {" bom", "SIN", "ZZZ", NaN}

TripCells == {TripNaN, TripText} \cup { TripInt(n) : n \in 1..MaxTrips }

SeqsUpTo(S, n) == UNION { [1..k -> S] : k \in 1..n }

\* trips cells a sheet with the given columns can hold
TripsFor(columns) == IF "trips" \in columns THEN TripCells ELSE {TripNaN}

RouteRows(routes, columns) ==
    { [route |-> r, from |-> NaN, to |-> NaN, trips |-> t] :
        r \in routes, t \in TripsFor(columns) }

PairRows(columns) ==
    { [route |-> RouteNaN, from |-> f, to |-> t, trips |-> n] :
        f \in (IF "from" \in columns THEN FromCells ELSE {NaN}),
        t \in (IF "to" \in columns THEN ToCells ELSE {NaN}),
        n \in TripsFor(columns) }

\* routes of a one-row sheet: up to MaxRouteLen codes, or the empty cell
LongRoutes == SeqsUpTo(RouteParts, MaxRouteLen) \cup {RouteNaN}

\* routes of a multi-row sheet: one leg, or the empty cell
BatchRoutes ==
    { <<f, t>> : f \in FromCells \ {NaN}, t \in ToCells \ {NaN} } \cup {RouteNaN}

RouteShapes == { {"route"}, {"route", "trips"} }

\* column sets of multi-row sheets: route shape, {from, to} shape, and
\* sheets that lack a required column
BatchShapes ==
    { {"route"}, {"route", "trips"}, {"from", "to"}, {"from", "to", "trips"},
      {"from"}, {"to", "trips"}, {"trips"} }

BatchRows(columns) ==
    IF "route" \in columns THEN RouteRows(BatchRoutes, columns) ELSE PairRows(columns)

NoFile == [columns |-> {}, rows |-> <<>>]

----------------------------------------------------------------------------
(* The state machine: one run of the script *)

\* The widgets hold what the user entered before the run; nothing is shown.
\* Either the button was pressed on two texts and no file is uploaded, or a
\* file is uploaded, the texts are empty and the button is not pressed.
Init ==
    /\ pc = "start"
    /\ \/ /\ button = TRUE
          /\ from_text \in QueryTexts
          /\ to_text \in QueryTexts
          /\ uploaded_file = NoFile
       \/ /\ button = FALSE
          /\ from_text = ""
          /\ to_text = ""
          /\ \/ \E c \in RouteShapes : \E r \in RouteRows(LongRoutes, c) :
                    uploaded_file = [columns |-> c, rows |-> <<r>>]
             \/ \E c \in BatchShapes : \E n \in 1..MaxRows :
                    \E rs \in [1..n -> BatchRows(c)] :
                       uploaded_file = [columns |-> c, rows |-> rs]
    /\ from_code = ""
    /\ to_code = ""
    /\ single = NoLookup
    /\ df = NoFile
    /\ shown = <<>>
    /\ summary = NoSummary
    /\ insight = NoInsight

\* app.py 76-94: the run of a pressed "Calculate Distance" button
CalculateDistance ==
    /\ pc = "start"
    /\ button
    /\ from_code' = StripUpper(from_text)
    /\ to_code' = StripUpper(to_text)
    /\ single' = SingleLookup(from_code', to_code')
    /\ pc' = "done"
    /\ UNCHANGED <<button, from_text, to_text, uploaded_file, df, shown, summary, insight>>

\* app.py 102-293: the run with an uploaded spreadsheet
Upload ==
    /\ pc = "start"
    /\ uploaded_file # NoFile
    /\ LET r == UploadHandler(uploaded_file)
       IN  /\ df' = r.df
           /\ shown' = r.shown
           /\ summary' = r.summary
           /\ insight' = r.insight
    /\ pc' = "done"
    /\ UNCHANGED <<button, from_text, to_text, from_code, to_code, single, uploaded_file>>

Next == CalculateDistance \/ Upload

Spec == Init /\ [][Next]_vars

----------------------------------------------------------------------------
(* Vocabulary of the properties *)

Uploaded == pc = "done" /\ uploaded_file # NoFile
RouteShape == "route" \in uploaded_file.columns
PairShape == "route" \notin uploaded_file.columns /\ {"from", "to"} \subseteq uploaded_file.columns
\* the row functions ran on every row and the result columns were assigned
RowsDone == Uploaded /\ ResultColumns \subseteq df.columns
RowIds == 1..Len(df.rows)

CodesOf(route) == [k \in 1..Len(route) |-> StripUpper(route[k])]
AllResolve(codes) == \A k \in 1..Len(codes) : InTable(codes[k])
Home(c) == airport_data[c].country = "IN"
LegKm(c1, c2) == haversine(airport_data[c1].lat, airport_data[c1].lon,
                           airport_data[c2].lat, airport_data[c2].lon)
HasResult(r) == ~IsNull(r.distance_km) /\ ~IsNull(r.travel_type) /\ ~IsNull(r.emissions)
NoResult(r) == IsNull(r.distance_km) /\ IsNull(r.travel_type) /\ IsNull(r.emissions)

----------------------------------------------------------------------------
(* C5 *)

\* C5: a route of two or more codes that all resolve is Domestic if and only
\* if both endpoints of each of its consecutive legs are in the home country
\* "IN" (a leg with a foreign or an empty country makes it International);
\* the single lookup and the {from, to} row classify their one leg the same way.
C5_DomesticIffEveryLegHome ==
    /\ (RowsDone /\ RouteShape) =>
          \A i \in RowIds :
             LET codes == CodesOf(df.rows[i].route)
                 tt == df.rows[i].travel_type
             IN  (Len(codes) >= 2 /\ AllResolve(codes)) =>
                    /\ tt \in {Some("Domestic"), Some("International")}
                    /\ tt = Some("Domestic") <=>
                          \A k \in 1..(Len(codes) - 1) : Home(codes[k]) /\ Home(codes[k + 1])
    /\ (RowsDone /\ PairShape) =>
          \A i \in RowIds :
             LET f == StripUpper(df.rows[i].from)
                 t == StripUpper(df.rows[i].to)
                 tt == df.rows[i].travel_type
             IN  (InTable(f) /\ InTable(t)) =>
                    /\ tt \in {Some("Domestic"), Some("International")}
                    /\ tt = Some("Domestic") <=> (Home(f) /\ Home(t))
    /\ (pc = "done" /\ button /\ InTable(from_code) /\ InTable(to_code)) =>
          /\ single.travel_type \in {Some("Domestic"), Some("International")}
          /\ single.travel_type = Some("Domestic") <=> (Home(from_code) /\ Home(to_code))

\* a three-code route whose first leg is domestic and whose second leg ends
\* at an airport of empty country, reported International
C5_Witness ==
    /\ RowsDone /\ RouteShape
    /\ \E i \in RowIds :
          /\ CodesOf(df.rows[i].route) = <<"DEL", "BOM", "WDH">>
          /\ df.rows[i].travel_type = Some("International")

----------------------------------------------------------------------------
(* C6 *)

\* the factor of the leg from c1 to c2, by that leg's own endpoints
OwnFactor(c1, c2) ==
    IF Home(c1) /\ Home(c2) THEN DOMESTIC_FACTOR ELSE INTERNATIONAL_FACTOR

\* C6: the emissions of a route row are the sum, over its consecutive legs, of
\* the leg's distance times the leg's own factor (domestic when both endpoints
\* of that leg are in the home country, international otherwise), whatever
\* the route's travel type is.
C6_EmissionsSumOfLegsAtOwnFactor ==
    (RowsDone /\ RouteShape) =>
       \A i \in RowIds :
          LET codes == CodesOf(df.rows[i].route)
          IN  AllResolve(codes) =>
                 df.rows[i].emissions =
                    Some(SumSeq([k \in 1..(Len(codes) - 1) |->
                                   LegKm(codes[k], codes[k + 1])
                                      * OwnFactor(codes[k], codes[k + 1])]))

\* DEL-BOM-SIN: International, the first leg charged the domestic factor and
\* the second the international one
C6_Witness ==
    /\ RowsDone /\ RouteShape
    /\ \E i \in RowIds :
          /\ CodesOf(df.rows[i].route) = <<"DEL", "BOM", "SIN">>
          /\ df.rows[i].travel_type = Some("International")
          /\ df.rows[i].emissions =
                Some(1138 * DOMESTIC_FACTOR + 3922 * INTERNATIONAL_FACTOR)

----------------------------------------------------------------------------
(* C7 *)

\* C7: a route row of two or more codes has all of distance, travel type and
\* emissions null when one of its codes is not in the airport table, wherever
\* that code is, and has all three non-null when every code resolves.
C7_UnknownCodeNullsWholeRoute ==
    (RowsDone /\ RouteShape) =>
       \A i \in RowIds :
          LET codes == CodesOf(df.rows[i].route)
          IN  Len(codes) >= 2 =>
                 /\ ~AllResolve(codes) => NoResult(df.rows[i])
                 /\ AllResolve(codes) => HasResult(df.rows[i])

\* two legs, the first resolved, the unknown code last: everything is null
C7_Witness ==
    /\ RowsDone /\ RouteShape
    /\ \E i \in RowIds :
          /\ CodesOf(df.rows[i].route) = <<"DEL", "BOM", "ZZZ">>
          /\ NoResult(df.rows[i])

----------------------------------------------------------------------------
(* C8 *)

Looked == pc = "done" /\ button
NothingComputed ==
    IsNull(single.distance) /\ IsNull(single.travel_type) /\ IsNull(single.emissions)

\* C8: a single lookup ends in exactly one of: the incomplete-input warning
\* when a code is blank (also when the other is unknown); otherwise the
\* unknown-code error naming exactly the codes absent from the table, one for
\* each absent input and no known code; otherwise a result.  Nothing is
\* computed in the first two.
C8_SingleLookupOutcome ==
    Looked =>
       IF from_code = "" \/ to_code = ""
       THEN single.signal = "warning" /\ single.missing = <<>> /\ NothingComputed
       ELSE IF ~InTable(from_code) \/ ~InTable(to_code)
       THEN /\ single.signal = "error"
            /\ NothingComputed
            /\ \A k \in 1..Len(single.missing) : ~InTable(single.missing[k])
            /\ Len(single.missing) =
                  Cardinality({ w \in {"from", "to"} :
                     ~InTable(IF w = "from" THEN from_code ELSE to_code) })
            /\ ~InTable(from_code) => \E k \in 1..Len(single.missing) : single.missing[k] = from_code
            /\ ~InTable(to_code) => \E k \in 1..Len(single.missing) : single.missing[k] = to_code
       ELSE /\ single.signal = "success"
            /\ single.missing = <<>>
            /\ ~IsNull(single.distance) /\ ~IsNull(single.travel_type)
            /\ ~IsNull(single.emissions)

\* both codes unknown: the error names both
C8_Witness ==
    /\ Looked
    /\ from_code = "ZZZ" /\ to_code = "YYY"
    /\ single.signal = "error"
    /\ single.missing = <<"ZZZ", "YYY">>

----------------------------------------------------------------------------
(* C10 *)

InsightShown == Uploaded /\ \E k \in 1..Len(shown) : shown[k] = "Insight"
ErrorShown == \E k \in 1..Len(shown) : shown[k] = "Error processing file"
MetricsShown == \E k \in 1..Len(shown) : shown[k] = "Key Metrics"
WithResult == { i \in RowIds : ~IsNull(df.rows[i].emissions) }

\* C10: when a batch has a row with non-null results, a route is highlighted,
\* and it is that of a non-null row whose emissions are the largest of the
\* non-null rows, the first such row in input order; a null row is never it.
C10_TopRouteIsFirstMaximum ==
    /\ (RowsDone /\ WithResult # {}) => InsightShown
    /\ InsightShown =>
          /\ insight.index \in WithResult
          /\ \A j \in WithResult :
                /\ df.rows[j].emissions[1] <= df.rows[insight.index].emissions[1]
                /\ j < insight.index =>
                      df.rows[j].emissions[1] < df.rows[insight.index].emissions[1]
          /\ insight.route = df.rows[insight.index].route
          /\ insight.em_val = df.rows[insight.index].emissions[1]

\* two rows share the largest emissions and the first one is highlighted
C10_Witness ==
    /\ InsightShown
    /\ Len(df.rows) >= 2
    /\ insight.index = 1
    /\ \E j \in WithResult :
          j > 1 /\ df.rows[j].emissions = df.rows[1].emissions
    /\ insight.em_val > 0

----------------------------------------------------------------------------
(* C1 *)

\* the same row with a trip count of 1
WithOneTrip(r) == [r EXCEPT !.trips = TripInt(1)]

\* C1: in both batch shapes, a row whose codes all resolve reports, with trip
\* count N >= 1, N times the emissions the same row reports with trip count 1.
C1_EmissionsLinearInTrips ==
    /\ (RowsDone /\ PairShape) =>
          \A i \in WithResult :
             df.rows[i].emissions[1] =
                df.rows[i].trips.val * compute_metrics(WithOneTrip(df.rows[i])).emissions[1]
    /\ (RowsDone /\ RouteShape) =>
          \A i \in WithResult :
             df.rows[i].emissions[1] =
                df.rows[i].trips.val
                   * compute_route_metrics(WithOneTrip(df.rows[i])).emissions[1]

----------------------------------------------------------------------------
(* C2 *)

RequiredColumns == RouteShape \/ PairShape
FileRowIds == 1..Len(uploaded_file.rows)
\* no from, to or route cell of the sheet is empty
NoEmptyCodeCell ==
    \A i \in FileRowIds :
       IF RouteShape THEN uploaded_file.rows[i].route # RouteNaN
       ELSE uploaded_file.rows[i].from # NaN /\ uploaded_file.rows[i].to # NaN
\* the codes of row i of the sheet all resolve
Resolves(i) ==
    IF RouteShape THEN AllResolve(CodesOf(uploaded_file.rows[i].route))
    ELSE /\ InTable(StripUpper(uploaded_file.rows[i].from))
         /\ InTable(StripUpper(uploaded_file.rows[i].to))

\* C2: in both batch shapes the trip count of a row is 1 when the sheet has no
\* trips column, or the row's trips cell is empty or is no number, and the
\* batch is processed all the same: its rows get results and no error is
\* shown.  (Stated for sheets whose codes all resolve.)
C2_TripsDefaultToOne ==
    (Uploaded /\ RequiredColumns /\ NoEmptyCodeCell /\ \A i \in FileRowIds : Resolves(i)) =>
       /\ RowsDone
       /\ ~ErrorShown
       /\ \A i \in FileRowIds :
             ("trips" \notin uploaded_file.columns
                \/ uploaded_file.rows[i].trips.kind \in {"nan", "str"})
             => df.rows[i].trips = TripInt(1)

----------------------------------------------------------------------------
(* C3 *)

\* the sheet has a trips column and every trips cell is an integer
TripsAllInt ==
    /\ "trips" \in uploaded_file.columns
    /\ \A i \in FileRowIds : uploaded_file.rows[i].trips.kind = "int"

\* the sheet made of row i alone
OnlyRow(i) == [columns |-> uploaded_file.columns, rows |-> <<uploaded_file.rows[i]>>]
\* the result columns of a data frame row
ResultOf(r) == <<r.distance_km, r.travel_type, r.emissions>>
\* what row i gets in a sheet of its own
AloneResult(i) ==
    LET d == IF RouteShape THEN RouteTrips(read_excel(OnlyRow(i))).df
             ELSE PairTrips(read_excel(OnlyRow(i))).df
        a == IF RouteShape THEN ApplyRows(d, RouteResults(d))
             ELSE ApplyRows(d, PairResults(d))
    IN  ResultOf(a.df.rows[1])

\* C3: in a batch with the required columns a failing row (unknown code, or a
\* blank from, to or route cell) never aborts the batch: that row gets null
\* distance, travel type and emissions, every other row gets what it would
\* get without the failing rows, and the batch ends with its summary and
\* without "Error processing file", however many rows fail.  (Stated for
\* sheets whose trips cells are all integers.)
C3_RowFailureDoesNotAbortBatch ==
    (Uploaded /\ RequiredColumns /\ TripsAllInt) =>
       /\ RowsDone
       /\ MetricsShown
       /\ ~ErrorShown
       /\ \A i \in FileRowIds :
             IF Resolves(i)
             THEN ResultOf(df.rows[i]) = AloneResult(i)
             ELSE NoResult(df.rows[i])

----------------------------------------------------------------------------
(* C4 *)

Dom == {Some("Domestic")}
Int_ == {Some("International")}
\* the rows with non-null results whose travel type is in types
NonNullRows(types) ==
    SelectSeq(df.rows, LAMBDA r : ~IsNull(r.emissions) /\ r.travel_type \in types)
EmOver(types) ==
    LET sel == NonNullRows(types) IN SumSeq([k \in 1..Len(sel) |-> sel[k].emissions[1]])
KmOver(types) ==
    LET sel == NonNullRows(types) IN SumSeq([k \in 1..Len(sel) |-> sel[k].distance_km[1]])
TripsOver(types) ==
    LET sel == NonNullRows(types) IN SumSeq([k \in 1..Len(sel) |-> sel[k].trips.val])

\* C4: each total of the summary (emissions, distance, trips, and each of
\* them for Domestic and for International) is the sum of the per-row value
\* over exactly the rows with non-null results; a null row adds nothing, also
\* to the trips, so Domestic trips + International trips = total trips.
C4_TotalsSumNonNullRows ==
    (Uploaded /\ MetricsShown) =>
       /\ summary.total_em = EmOver(Dom \cup Int_)
       /\ summary.dom_em = EmOver(Dom)
       /\ summary.int_em = EmOver(Int_)
       /\ summary.total_dist = KmOver(Dom \cup Int_)
       /\ summary.dom_dist = KmOver(Dom)
       /\ summary.int_dist = KmOver(Int_)
       /\ summary.total_trips = TripsOver(Dom \cup Int_)
       /\ summary.dom_trips = TripsOver(Dom)
       /\ summary.int_trips = TripsOver(Int_)
       /\ summary.dom_trips + summary.int_trips = summary.total_trips

----------------------------------------------------------------------------
(* C9 *)

\* C9: a batch with no route column that lacks the from or the to column is
\* rejected as a whole before any row is processed: no result column is
\* added, no summary is produced, and the malformed-batch error is the only
\* thing the handler shows.
C9_MalformedBatchOnlyRejected ==
    (Uploaded /\ ~RequiredColumns) =>
       /\ df = read_excel(uploaded_file)
       /\ summary = NoSummary
       /\ insight = NoInsight
       /\ shown = <<MalformedBatchError>>

====
